---- MODULE Spec2Model ----
(***************************************************************************)
(* efx-doc: a terminal documentation browser (Bubble Tea model/Update)     *)
(* with an on-demand local web preview (net/http on :8080).                *)
(*                                                                         *)
(* Strings that the program inspects character by character (names,        *)
(* categories, descriptions, filter text, file names, paths) are tuples of *)
(* one-character strings.  File contents and notices are opaque strings.   *)
(***************************************************************************)
EXTENDS Integers, Sequences, FiniteSets, TLC

VARIABLES
    m,                \* the Bubble Tea model value (struct model, main.go 449-473)
    currentWorkspace, \* global *Workspace: index into Workspaces, 0 = nil
    registry,         \* workspaces.yaml as LoadWorkspaceConfig finds it
    glamour,          \* the global glamour renderer: its word-wrap width, whether it renders
    httpServer,       \* global *http.Server: a server id, 0 = nil
    currentHTML,      \* global: last published full page
    currentConfig,    \* global *Config used by the web sidebar
    currentDocName,   \* global
    currentCatName,   \* global
    servers,          \* the http.Server objects created so far: id -> state
    starts,           \* running `go serveMarkdown(...)` goroutines, in spawn order
    listens,          \* number of `go func(){ httpServer.ListenAndServe() }` not yet run
    handlers,         \* HTTP requests being handled
    loop,             \* position of the interactive loop inside Update
    crashed           \* the process died of a panic

vars == <<m, currentWorkspace, registry, glamour, httpServer, currentHTML, currentConfig,
          currentDocName, currentCatName, servers, starts, listens, handlers, loop,
          crashed>>

webvars == <<httpServer, currentHTML, currentDocName, currentCatName, servers,
             starts, listens, handlers, crashed>>

-----------------------------------------------------------------------------
(* Bounds of the model.                                                    *)

\* http.Server objects created in one run ('w' presses that start a server)
MaxServers == 2
\* HTTP requests in flight at once
MaxHandlers == 1
\* length of the filter buffer
MaxFilter == 2

-----------------------------------------------------------------------------
(* String literals of the program.                                         *)

sREADME == <<"R", "E", "A", "D", "M", "E">>
sOverview == <<"O", "v", "e", "r", "v", "i", "e", "w">>
sOverviewDesc == <<"P", "r", "o", "j", "e", "c", "t", " ", "o", "v", "e", "r", "v", "i", "e", "w", " ", "a", "n", "d", " ", "s", "t", "a", "t", "s">>
sWelcome == <<"w", "e", "l", "c", "o", "m", "e">>
sPreview == <<"p", "r", "e", "v", "i", "e", "w">>
sMd == <<".", "m", "d">>
sDocs == <<"d", "o", "c", "s">>
sReadmeMd == <<"R", "E", "A", "D", "M", "E", ".", "m", "d">>
sDocsYaml == <<"d", "o", "c", "s", ".", "y", "a", "m", "l">>
sCore == <<"C", "o", "r", "e">>
sResponsive == <<"R", "e", "s", "p", "o", "n", "s", "i", "v", "e">>
sHelpers == <<"H", "e", "l", "p", "e", "r", "s">>
sComponents == <<"C", "o", "m", "p", "o", "n", "e", "n", "t", "s">>
sTemplates == <<"T", "e", "m", "p", "l", "a", "t", "e", "s">>
sPlayer == <<"P", "l", "a", "y", "e", "r">>
fCore == <<"c", "o", "r", "e">>
fResponsive == <<"r", "e", "s", "p", "o", "n", "s", "i", "v", "e">>
fHelpers == <<"h", "e", "l", "p", "e", "r", "s">>
fComponents == <<"c", "o", "m", "p", "o", "n", "e", "n", "t", "s">>
fTemplates == <<"t", "e", "m", "p", "l", "a", "t", "e", "s">>
fPlayer == <<"p", "l", "a", "y", "e", "r">>
sUnknownXYZ == <<"U", "n", "k", "n", "o", "w", "n", "-", "X", "Y", "Z">>
sGettingStarted == <<"G", "e", "t", "t", "i", "n", "g", " ", "S", "t", "a", "r", "t", "e", "d">>
fGettingStarted == <<"g", "e", "t", "t", "i", "n", "g", "-", "s", "t", "a", "r", "t", "e", "d">>
sDefaultProject == <<"e", "f", "x", "-", "m", "o", "t", "i", "o", "n">>
sDocumentationFor == <<"D", "o", "c", "u", "m", "e", "n", "t", "a", "t", "i", "o", "n", " ", "f", "o", "r", " ">>

\* toastTimer value set with every notice ("Show for 30 ticks")
ToastTicks == 30
\* width passed to initGlamour at startup
StartupGlamourWidth == 60

-----------------------------------------------------------------------------
(* strings: ToLower, Contains, ReplaceAll; filepath.Join                   *)

UpperLetters == <<"A","B","C","D","E","F","G","H","I","J","K","L","M","N","O","P","Q","R","S","T","U","V","W","X","Y","Z">>
LowerLetters == <<"a","b","c","d","e","f","g","h","i","j","k","l","m","n","o","p","q","r","s","t","u","v","w","x","y","z">>

ToLowerChar(c) ==
    IF \E i \in 1..Len(UpperLetters) : UpperLetters[i] = c
    THEN LowerLetters[CHOOSE i \in 1..Len(UpperLetters) : UpperLetters[i] = c]
    ELSE c

ToLower(s) == [i \in 1..Len(s) |-> ToLowerChar(s[i])]

Contains(s, sub) ==
    \E i \in 0..(Len(s) - Len(sub)) : SubSeq(s, i + 1, i + Len(sub)) = sub

RECURSIVE ReplaceAll(_, _, _)
\* strings.ReplaceAll for a one-character `old`; `new` is a string
ReplaceAll(s, old, new) ==
    IF s = <<>> THEN <<>>
    ELSE (IF Head(s) = old THEN new ELSE <<Head(s)>>) \o ReplaceAll(Tail(s), old, new)

Join2(dir, file) == dir \o <<"/">> \o file
Join3(dir, folder, file) == dir \o <<"/">> \o folder \o <<"/">> \o file

-----------------------------------------------------------------------------
(* The environment of one run: the workspace registry                      *)
(* (~/.config/efx-doc/workspaces.yaml) and the files of each workspace.    *)

Workspaces ==
    << [name |-> "alpha", path |-> <<"/", "a">>],
       [name |-> "beta",  path |-> <<"/", "b">>],
       [name |-> "gamma", path |-> <<"/", "c">>],
       [name |-> "delta", path |-> <<"/", "d">>],
       [name |-> "epsilon", path |-> <<"/", "e">>],
       [name |-> "zeta", path |-> <<"/", "z">>],
       [name |-> "eta", path |-> <<"/", "y">>],
       [name |-> "theta", path |-> <<"/", "t">>] >>

ConfigAlpha ==
    [ Name |-> <<"A", "l", "p", "h", "a">>,
      Description |-> <<"d", "o", "c", "s", " ", "A">>,
      Categories |-> <<
        [ Name |-> sCore,
          References |-> <<
            [Name |-> <<"I", "n", "s", "t", "a", "l", "l">>, Description |-> <<"s", "e", "t", "u", "p">>],
            [Name |-> <<"B", "u", "t", "t", "o", "n">>, Description |-> <<"u", "i">>] >> ],
        [ Name |-> <<"M", "i", "s", "c">>,
          References |-> <<
            [Name |-> <<"F", "o", "o", " ", "B", "a", "r">>, Description |-> <<"d", "e", "m", "o">>] >> ] >> ]

ConfigBeta ==
    [ Name |-> <<>>,
      Description |-> <<>>,
      Categories |-> <<
        [ Name |-> sPlayer,
          References |-> <<
            [Name |-> <<"P", "l", "a", "y">>, Description |-> <<"r", "u", "n">>] >> ] >> ]

\* seven items: a category of five, a category of one and an empty category
ConfigEpsilon ==
    [ Name |-> <<"E">>,
      Description |-> <<>>,
      Categories |-> <<
        [ Name |-> <<"G", "u", "i", "d", "e">>,
          References |-> <<
            [Name |-> <<"A">>, Description |-> <<>>],
            [Name |-> <<"B">>, Description |-> <<>>],
            [Name |-> <<"C">>, Description |-> <<>>],
            [Name |-> <<"D">>, Description |-> <<>>],
            [Name |-> <<"E">>, Description |-> <<>>] >> ],
        [ Name |-> <<"S", "o", "l", "o">>,
          References |-> << [Name |-> <<"S">>, Description |-> <<>>] >> ],
        [ Name |-> <<"E", "m", "p", "t", "y">>,
          References |-> <<>> ] >> ]

\* a name that differs from its file by a hyphen, and a category of the
\* README's table
ConfigZeta ==
    [ Name |-> <<"Z">>,
      Description |-> <<>>,
      Categories |-> <<
        [ Name |-> sCore,
          References |-> << [Name |-> <<"F", "o", "o", "-", "B", "a", "r">>, Description |-> <<>>] >> ],
        [ Name |-> sGettingStarted,
          References |-> << [Name |-> <<"G">>, Description |-> <<>>] >> ] >> ]

\* a name with a file of its own and a hyphenated one, and a category of no table
ConfigTheta ==
    [ Name |-> <<"T">>,
      Description |-> <<>>,
      Categories |-> <<
        [ Name |-> sPlayer,
          References |-> << [Name |-> <<"A", " ", "B">>, Description |-> <<>>] >> ],
        [ Name |-> sUnknownXYZ,
          References |-> << [Name |-> <<"U">>, Description |-> <<>>] >> ] >> ]

\* documents whose files exist and are empty
ConfigEta ==
    [ Name |-> <<"Y">>,
      Description |-> <<>>,
      Categories |-> <<
        [ Name |-> sHelpers,
          References |-> <<
            [Name |-> <<"C", " ", "D">>, Description |-> <<>>],
            [Name |-> <<"E">>, Description |-> <<>>] >> ] >> ]

\* The markdown files on disk: <<path, content>>.  alpha has a README.md and no
\* file for Button; beta has no README.md; epsilon has no file at all; zeta has
\* a README.md in its root and one in core; two files of eta are empty; theta
\* has no README.md.
Disk ==
    { << <<"/", "a", "/", "R", "E", "A", "D", "M", "E", ".", "m", "d">>, "# Alpha" >>,
      << <<"/", "a", "/", "c", "o", "r", "e", "/", "I", "n", "s", "t", "a", "l", "l", ".", "m", "d">>, "# Hi" >>,
      << <<"/", "a", "/", "c", "o", "r", "e", "/", "F", "o", "o", "-", "B", "a", "r", ".", "m", "d">>, "# Foo" >>,
      << <<"/", "b", "/", "p", "l", "a", "y", "e", "r", "/", "P", "l", "a", "y", ".", "m", "d">>, "# Play" >>,
      << <<"/", "z", "/", "R", "E", "A", "D", "M", "E", ".", "m", "d">>, "# Zeta" >>,
      << <<"/", "z", "/", "c", "o", "r", "e", "/", "R", "E", "A", "D", "M", "E", ".", "m", "d">>, "# Core readme" >>,
      << <<"/", "z", "/", "c", "o", "r", "e", "/", "F", "o", "o", " ", "B", "a", "r", ".", "m", "d">>, "# Spaced" >>,
      << <<"/", "t", "/", "p", "l", "a", "y", "e", "r", "/", "A", " ", "B", ".", "m", "d">>, "# Exact" >>,
      << <<"/", "t", "/", "p", "l", "a", "y", "e", "r", "/", "A", "-", "B", ".", "m", "d">>, "# Dashed" >>,
      << <<"/", "t", "/", "c", "o", "r", "e", "/", "U", ".", "m", "d">>, "# U" >>,
      << <<"/", "z", "/", "g", "e", "t", "t", "i", "n", "g", "-", "s", "t", "a", "r", "t", "e", "d", "/", "G", ".", "m", "d">>, "# G" >>,
      << <<"/", "y", "/", "h", "e", "l", "p", "e", "r", "s", "/", "C", " ", "D", ".", "m", "d">>, "" >>,
      << <<"/", "y", "/", "h", "e", "l", "p", "e", "r", "s", "/", "C", "-", "D", ".", "m", "d">>, "# CD" >>,
      << <<"/", "y", "/", "h", "e", "l", "p", "e", "r", "s", "/", "E", ".", "m", "d">>, "" >> }

\* docs.yaml of each workspace: what os.ReadFile and yaml.Unmarshal make of it.
DocsYaml ==
    << [read |-> TRUE,  parse |-> TRUE,  config |-> ConfigAlpha],
       [read |-> TRUE,  parse |-> TRUE,  config |-> ConfigBeta],
       [read |-> FALSE, parse |-> FALSE, config |-> ConfigBeta],
       [read |-> TRUE,  parse |-> FALSE, config |-> ConfigBeta],
       [read |-> TRUE,  parse |-> TRUE,  config |-> ConfigEpsilon],
       [read |-> TRUE,  parse |-> TRUE,  config |-> ConfigZeta],
       [read |-> TRUE,  parse |-> TRUE,  config |-> ConfigEta],
       [read |-> TRUE,  parse |-> TRUE,  config |-> ConfigTheta] >>

\* os.ReadFile: data is nil (isNil) exactly when the file cannot be opened
ReadFile(path) ==
    IF \E f \in Disk : f[1] = path
    THEN [isNil |-> FALSE, data |-> (CHOOSE f \in Disk : f[1] = path)[2]]
    ELSE [isNil |-> TRUE, data |-> ""]

HasPrefix(s, p) == Len(s) >= Len(p) /\ SubSeq(s, 1, Len(p)) = p
HasSuffix(s, p) == Len(s) >= Len(p) /\ SubSeq(s, Len(s) - Len(p) + 1, Len(s)) = p

countMarkdownFiles(dir) ==
    Cardinality({f \in Disk : HasPrefix(f[1], dir \o <<"/">>) /\ HasSuffix(f[1], sMd)})

GetWorkspaceDocsPath(ws) == IF ws = 0 THEN <<>> ELSE Workspaces[ws].path

getDataDir(ws) == GetWorkspaceDocsPath(ws)

-----------------------------------------------------------------------------
(* Document contents.  A content is a record with a `kind`; the empty      *)
(* string is the file content with text "".                                *)

FileContent(text) == [kind |-> "file", text |-> text]

EmptyString == FileContent("")

RECURSIVE SumRefs(_)
SumRefs(cats) ==
    IF cats = <<>> THEN 0 ELSE Len(Head(cats).References) + SumRefs(Tail(cats))

\* README.md of the workspace root plus the stats, or the generated welcome text
generateWelcomeContent(config, dataDir) ==
    LET counted == countMarkdownFiles(dataDir)
        fileCount == IF counted > 0 THEN counted - 1 ELSE counted
        refCount == SumRefs(config.Categories)
        readmeContent == ReadFile(Join2(dataDir, sReadmeMd)).data
        projectName == IF config.Name = <<>> THEN sDefaultProject ELSE config.Name
        projectDesc == IF config.Description = <<>>
                       THEN sDocumentationFor \o projectName
                       ELSE config.Description
    IN  IF readmeContent # ""
        THEN [kind |-> "welcome", readme |-> readmeContent, name |-> <<>>, desc |-> <<>>,
              cats |-> Len(config.Categories), refs |-> refCount, files |-> fileCount]
        ELSE [kind |-> "welcome", readme |-> "", name |-> projectName, desc |-> projectDesc,
              cats |-> Len(config.Categories), refs |-> refCount, files |-> fileCount]

\* fmt.Sprintf("# %s\n\nDocumentation not found.\n\nCategory: '%s'\nFolder: '%s'", ...)
NotFoundContent(name, category, folder) ==
    [kind |-> "notfound", name |-> name, category |-> category, folder |-> folder]

\* a rendering that gives "" when the renderer fails
RenderMarkdownOrNothing(content, gl) ==
    IF gl.ok /\ content # EmptyString
    THEN [kind |-> "rendered", raw |-> content, wrap |-> gl.width]
    ELSE EmptyString

\* glamour's rendering of a content with the renderer's word wrap; the content
\* itself when the renderer fails or returns ""
RenderMarkdown(content, gl) ==
    IF gl.ok /\ content # EmptyString
    THEN [kind |-> "rendered", raw |-> content, wrap |-> gl.width]
    ELSE content

\* glamour.NewTermRenderer(..., WithWordWrap(width)), with its dracula fallback
initGlamour(width) == [width |-> width, ok |-> TRUE]

\* the renderer when both NewTermRenderer calls failed (glamourRenderer is
\* nil) or when its Render returns an error
FailingGlamour(width) == [width |-> width, ok |-> FALSE]

-----------------------------------------------------------------------------
(* Document index.                                                         *)

OverviewItem == [name |-> sREADME, description |-> sOverviewDesc, category |-> sOverview]

ItemsOfCategory(cat) ==
    [i \in 1..Len(cat.References) |->
        [name |-> cat.References[i].Name,
         description |-> cat.References[i].Description,
         category |-> cat.Name]]

RECURSIVE ItemsOfCategories(_)
ItemsOfCategories(cats) ==
    IF cats = <<>> THEN <<>>
    ELSE ItemsOfCategory(Head(cats)) \o ItemsOfCategories(Tail(cats))

\* an index without the overview item
createItemsWithoutOverview(config) == ItemsOfCategories(config.Categories)

createItems(config) == <<OverviewItem>> \o ItemsOfCategories(config.Categories)

\* the category of the first item called `name`, "" when there is none
CategoryOf(items, name) ==
    IF \E i \in 1..Len(items) : items[i].name = name
    THEN items[CHOOSE i \in 1..Len(items) :
                 /\ items[i].name = name
                 /\ \A j \in 1..(i - 1) : items[j].name # name].category
    ELSE <<>>

\* item.FilterValue: name, description and category joined by spaces
FilterValue(i) == i.name \o <<" ">> \o i.description \o <<" ">> \o i.category

\* a tab filter that narrows the current view instead of the item list
filterByTabFromView(mm) ==
    IF mm.activeTab = 0
    THEN [mm EXCEPT !.filteredItems = mm.items]
    ELSE LET catName == mm.config.Categories[mm.activeTab].Name
             InCat(i) == i.category = catName
         IN  [mm EXCEPT !.filteredItems = SelectSeq(mm.filteredItems, InCat)]

filterByTab(mm) ==
    IF mm.activeTab = 0
    THEN [mm EXCEPT !.filteredItems = mm.items]
    ELSE LET catName == mm.config.Categories[mm.activeTab].Name
             InCat(i) == i.category = catName
         IN  [mm EXCEPT !.filteredItems = SelectSeq(mm.items, InCat)]

\* a text filter that leaves the cursor and the page where they were
applyFilterKeepingCursor(mm) ==
    IF mm.filter = <<>>
    THEN filterByTab(mm)
    ELSE LET filter == ToLower(mm.filter)
             Match(i) == \/ Contains(ToLower(i.name), filter)
                         \/ Contains(ToLower(i.description), filter)
                         \/ Contains(ToLower(i.category), filter)
         IN  [mm EXCEPT !.filteredItems = SelectSeq(mm.items, Match)]

applyFilter(mm) ==
    IF mm.filter = <<>>
    THEN filterByTab(mm)
    ELSE LET filter == ToLower(mm.filter)
             Match(i) == \/ Contains(ToLower(i.name), filter)
                         \/ Contains(ToLower(i.description), filter)
                         \/ Contains(ToLower(i.category), filter)
         IN  [mm EXCEPT !.filteredItems = SelectSeq(mm.items, Match),
                        !.cursor = 0,
                        !.currentPage = 0]

\* the page size of the field m.itemsPerPage, which up/down do not use
itemsPerPageField(mm) ==
    LET perPage == (mm.height - 12) \div 2
    IN  IF perPage < 5 THEN 5 ELSE perPage

getItemsPerPage(mm) ==
    LET perPage == mm.height - 14
    IN  IF perPage < 5 THEN 10 ELSE perPage

-----------------------------------------------------------------------------
(* loadDoc: the terminal's resolution, rendering and render cache.         *)

categoryMap(category) ==
    CASE category = sCore -> fCore
      [] category = sResponsive -> fResponsive
      [] category = sHelpers -> fHelpers
      [] category = sComponents -> fComponents
      [] category = sTemplates -> fTemplates
      [] category = sPlayer -> fPlayer
      [] OTHER -> <<>>

\* a folder named after the lowercased label when the table has no entry
FolderOfLowercased(category) ==
    IF categoryMap(category) = <<>> THEN ToLower(category) ELSE categoryMap(category)

FolderOf(category) ==
    IF categoryMap(category) = <<>> THEN fCore ELSE categoryMap(category)

\* candidates that try the hyphenated name before the exact one
possibleNamesDashedFirst(name) ==
    << ReplaceAll(name, " ", <<"-">>) \o sMd,
       name \o sMd,
       ReplaceAll(name, " ", <<>>) \o sMd >>

possibleNames(name) ==
    << name \o sMd,
       ReplaceAll(name, " ", <<"-">>) \o sMd,
       ReplaceAll(name, " ", <<>>) \o sMd >>

\* index of the first candidate os.ReadFile returns non-nil data for, 0 if none
FirstReadable(docsDir, names) ==
    IF \E i \in 1..Len(names) : ~ReadFile(Join2(docsDir, names[i])).isNil
    THEN CHOOSE i \in 1..Len(names) :
            /\ ~ReadFile(Join2(docsDir, names[i])).isNil
            /\ \A j \in 1..(i - 1) : ReadFile(Join2(docsDir, names[j])).isNil
    ELSE 0

\* an insertion that starts the cache afresh
PutAlone(cache, key, value) == [k \in {key} |-> value]

Put(cache, key, value) ==
    [k \in (DOMAIN cache) \cup {key} |-> IF k = key THEN value ELSE cache[k]]

DocWidth(width) ==
    LET leftWidth == IF (width * 40) \div 100 < 45 THEN 45 ELSE (width * 40) \div 100
    IN  width - leftWidth - 4

loadDoc(mm, name, ws, gl) ==
    IF name \in DOMAIN mm.docCache
    THEN [mm EXCEPT !.viewport = mm.docCache[name], !.docCacheKey = name]
    ELSE IF name = sREADME
    THEN LET welcomeContent == generateWelcomeContent(mm.config, getDataDir(ws))
             rendered == RenderMarkdown(welcomeContent, gl)
         IN  [mm EXCEPT !.docCache = Put(mm.docCache, name, rendered),
                        !.viewport = rendered,
                        !.docCacheKey = name,
                        !.docPath = Join3(getDataDir(ws), sDocs, sReadmeMd)]
    ELSE LET category == CategoryOf(mm.items, name)
             folder == FolderOf(category)
             docsDir == Join2(getDataDir(ws), folder)
             names == possibleNames(name)
             found == FirstReadable(docsDir, names)
         IN  IF found = 0
             THEN LET placeholder == NotFoundContent(name, category, folder)
                  IN  [mm EXCEPT !.docContent = placeholder,
                                 !.docCache = Put(mm.docCache, name, placeholder),
                                 !.viewport = placeholder,
                                 !.docCacheKey = name,
                                 !.docPath = <<>>]
             ELSE LET content == FileContent(ReadFile(Join2(docsDir, names[found])).data)
                      result == RenderMarkdown(content, gl)
                      rendered == IF result = EmptyString THEN content ELSE result
                  IN  [mm EXCEPT !.docContent = content,
                                 !.docCache = Put(mm.docCache, name, rendered),
                                 !.viewport = rendered,
                                 !.docCacheKey = name,
                                 !.docPath = Join2(docsDir, names[found])]

-----------------------------------------------------------------------------
(* Web preview: pages, the sidebar links and the web side's resolution.    *)

NilConfig == [nil |-> TRUE]

\* currentHTML before the first publish: the empty string
NoPage == [kind |-> "empty"]

\* what a read of currentHTML concurrent with a write of it may return
TornPage == [kind |-> "torn"]

urlEncode(s) ==
    ReplaceAll(ReplaceAll(ReplaceAll(s, " ", <<"-">>), "&", <<"%", "2", "6">>),
               "#", <<"%", "2", "3">>)

LinksOfCategory(cat) ==
    [i \in 1..Len(cat.References) |->
        [cat |-> urlEncode(cat.Name), doc |-> urlEncode(cat.References[i].Name),
         text |-> cat.References[i].Name]]

RECURSIVE LinksOfCategories(_)
LinksOfCategories(cats) ==
    IF cats = <<>> THEN <<>>
    ELSE <<[title |-> Head(cats).Name, links |-> LinksOfCategory(Head(cats))]>>
         \o LinksOfCategories(Tail(cats))

\* the sidebar lists the categories and references of currentConfig
generateSidebarHTML(activeCat, activeDoc, cfg) ==
    IF cfg = NilConfig THEN <<>>
    ELSE LinksOfCategories(cfg.Categories)

generateFullPageHTML(title, content, activeCat, activeDoc, cfg) ==
    [kind |-> "page", title |-> title, body |-> content, cat |-> activeCat,
     doc |-> activeDoc, sidebar |-> generateSidebarHTML(activeCat, activeDoc, cfg)]

\* webMarkdown.Convert: goldmark's HTML for a markdown content
ConvertHTML(content) == [kind |-> "html", raw |-> content]

webCategoryMap(catName) ==
    CASE catName = sCore -> fCore
      [] catName = sResponsive -> fResponsive
      [] catName = sHelpers -> fHelpers
      [] catName = sComponents -> fComponents
      [] catName = sTemplates -> fTemplates
      [] catName = sPlayer -> fPlayer
      [] OTHER -> <<>>

webPossibleNames(docName) ==
    << docName \o sMd,
       ReplaceAll(docName, " ", <<"-">>) \o sMd,
       ReplaceAll(docName, " ", <<>>) \o sMd,
       ReplaceAll(docName, "-", <<" ">>) \o sMd,
       ReplaceAll(docName, "-", <<>>) \o sMd >>

\* index of the first candidate read without error and with len(content) > 0
FirstNonEmpty(docsDir, names) ==
    LET Hit(i) == LET r == ReadFile(Join2(docsDir, names[i]))
                  IN  ~r.isNil /\ r.data # ""
    IN  IF \E i \in 1..Len(names) : Hit(i)
        THEN CHOOSE i \in 1..Len(names) : Hit(i) /\ \A j \in 1..(i - 1) : ~Hit(j)
        ELSE 0

loadDocContentFromDisk(catName, docName, ws) ==
    IF catName = <<>> \/ docName = <<>>
    THEN EmptyString
    ELSE LET folder == IF webCategoryMap(catName) = <<>> THEN fCore
                       ELSE webCategoryMap(catName)
             docsDir == Join2(getDataDir(ws), folder)
             names == webPossibleNames(docName)
             found == FirstNonEmpty(docsDir, names)
         IN  IF found = 0 THEN EmptyString
             ELSE FileContent(ReadFile(Join2(docsDir, names[found])).data)

\* the page the handler builds itself, NoPage ("") when it falls back to currentHTML
HandlerPage(req, ws, cfg) ==
    IF req.doc # <<>>
    THEN LET content == loadDocContentFromDisk(req.cat, req.doc, ws)
         IN  IF content # EmptyString
             THEN generateFullPageHTML(req.doc, ConvertHTML(content), req.cat, req.doc, cfg)
             ELSE NoPage
    ELSE NoPage

NoParams == [doc |-> <<>>, cat |-> <<>>]

RECURSIVE RequestsOf(_)
RequestsOf(sidebar) ==
    IF sidebar = <<>> THEN {}
    ELSE {[doc |-> Head(sidebar).links[i].doc, cat |-> Head(sidebar).links[i].cat] :
            i \in 1..Len(Head(sidebar).links)} \cup RequestsOf(Tail(sidebar))

\* GET / as the browser sends it: bare, or through a link of a sidebar (of a
\* page of alpha or beta left open, or of the page being served)
Requests ==
    {NoParams} \cup RequestsOf(LinksOfCategories(ConfigAlpha.Categories))
               \cup RequestsOf(LinksOfCategories(ConfigBeta.Categories))
               \cup RequestsOf(generateSidebarHTML(<<>>, <<>>, currentConfig))

\* GET / with parameters typed in the address bar: the name and the category
\* of an item of the workspace
TypedRequests(ws) ==
    LET items == createItems(DocsYaml[ws].config)
    IN  {[doc |-> items[i].name, cat |-> items[i].category] : i \in 1..Len(items)}

-----------------------------------------------------------------------------
(* main: the state when the Bubble Tea program starts.                     *)

\* main exits unless the selected workspace's docs.yaml is read and parsed
StartWorkspaces ==
    {ws \in 1..Len(Workspaces) : DocsYaml[ws].read /\ DocsYaml[ws].parse}

InitModel(ws) ==
    LET config == DocsYaml[ws].config
        items == createItems(config)
        welcomeContent == generateWelcomeContent(config, getDataDir(ws))
        welcomeRendered == RenderMarkdown(welcomeContent, initGlamour(StartupGlamourWidth))
    IN  [ config |-> config,
          items |-> items,
          filteredItems |-> items,
          cursor |-> 0,
          currentPage |-> 0,
          filter |-> <<>>,
          filtering |-> FALSE,
          quitting |-> FALSE,
          width |-> 0,
          height |-> 0,
          activeTab |-> 0,
          docContent |-> welcomeContent,
          viewport |-> welcomeRendered,
          docCache |-> Put(<<>>, sWelcome, welcomeRendered),
          docCacheKey |-> sWelcome,
          docPath |-> <<>>,
          toast |-> <<>>,
          toastTimer |-> 0,
          serverRunning |-> FALSE ]

InitIn(ws, reg) ==
    /\ currentWorkspace = ws
    /\ registry = reg
    /\ m = InitModel(ws)
    /\ glamour = initGlamour(StartupGlamourWidth)
    /\ currentConfig = DocsYaml[ws].config
    /\ httpServer = 0
    /\ currentHTML = NoPage
    /\ currentDocName = <<>>
    /\ currentCatName = <<>>
    /\ servers = <<>>
    /\ starts = <<>>
    /\ listens = 0
    /\ handlers = {}
    /\ loop = [pc |-> "idle"]
    /\ crashed = FALSE

\* the start with a renderer that fails: the welcome text is displayed and
\* cached as RenderMarkdown returns it
InitFailing(ws, reg) ==
    LET gl == FailingGlamour(StartupGlamourWidth)
        welcomeContent == generateWelcomeContent(DocsYaml[ws].config, getDataDir(ws))
        welcomeRendered == RenderMarkdown(welcomeContent, gl)
    IN  /\ currentWorkspace = ws
        /\ registry = reg
        /\ m = [InitModel(ws) EXCEPT !.viewport = welcomeRendered,
                                     !.docCache = Put(<<>>, sWelcome, welcomeRendered)]
        /\ glamour = gl
        /\ currentConfig = DocsYaml[ws].config
        /\ httpServer = 0
        /\ currentHTML = NoPage
        /\ currentDocName = <<>>
        /\ currentCatName = <<>>
        /\ servers = <<>>
        /\ starts = <<>>
        /\ listens = 0
        /\ handlers = {}
        /\ loop = [pc |-> "idle"]
        /\ crashed = FALSE

\* workspaces.yaml: unreadable, empty, or listing the workspaces
BrokenRegistry == [ok |-> FALSE, workspaces |-> <<>>]
EmptyRegistry == [ok |-> TRUE, workspaces |-> <<>>]
FullRegistry == [ok |-> TRUE, workspaces |-> <<1, 2, 3, 4>>]
LoadableRegistry == [ok |-> TRUE, workspaces |-> <<1, 2>>]
\* a single workspace: RunWorkspaceSelector returns it without asking
AlphaRegistry == [ok |-> TRUE, workspaces |-> <<1>>]
BetaRegistry == [ok |-> TRUE, workspaces |-> <<2>>]

\* the workspaces whose docs.yaml loads
StartableRegistry == [ok |-> TRUE, workspaces |-> <<1, 2, 5, 6, 7, 8>>]

Registries ==
    {BrokenRegistry, EmptyRegistry, FullRegistry, LoadableRegistry, AlphaRegistry,
     BetaRegistry, StartableRegistry}

Init == \E ws \in StartWorkspaces, reg \in Registries : InitIn(ws, reg)

-----------------------------------------------------------------------------
(* model.Update: one action per message.                                   *)

\* a loop that takes no message while a start or a listener is in flight
IdleAfterStart ==
    loop.pc = "idle" /\ ~m.quitting /\ ~crashed /\ starts = <<>> /\ listens = 0

\* Update is entered for the next message: the loop is between messages
Idle == loop.pc = "idle" /\ ~m.quitting /\ ~crashed

\* the toast countdown at the end of Update; a toast is a tuple of its parts,
\* <<>> for none
Tick(mm) ==
    IF mm.toastTimer > 0
    THEN [mm EXCEPT !.toastTimer = mm.toastTimer - 1,
                    !.toast = IF mm.toastTimer - 1 = 0 THEN <<>> ELSE mm.toast]
    ELSE mm

Notice(mm, text) == [mm EXCEPT !.toast = text, !.toastTimer = ToastTicks]

WindowWidths == {100, 200}
WindowHeights == {20, 30}

WindowSizeMsg ==
    /\ Idle
    /\ \E w \in WindowWidths, h \in WindowHeights :
        LET docWidth == IF DocWidth(w) < 40 THEN 40 ELSE DocWidth(w)
            sized == [m EXCEPT !.width = w, !.height = h, !.viewport = EmptyString]
        IN  /\ glamour' = initGlamour(docWidth)
            /\ m' = IF m.docCacheKey # <<>>
                    THEN loadDoc(sized, m.docCacheKey, currentWorkspace, initGlamour(docWidth))
                    ELSE sized
    /\ UNCHANGED <<currentWorkspace, registry, currentConfig, loop>>
    /\ UNCHANGED webvars

FilterChars == {"u", " "}

FilterEnter ==
    /\ Idle
    /\ m.filtering
    /\ m' = [m EXCEPT !.filtering = FALSE,
                      !.cursor = IF Len(m.filteredItems) > 0 THEN 0 ELSE m.cursor]
    /\ UNCHANGED <<currentWorkspace, registry, glamour, currentConfig, loop>>
    /\ UNCHANGED webvars

FilterEsc ==
    /\ Idle
    /\ m.filtering
    /\ m' = filterByTab([m EXCEPT !.filtering = FALSE, !.filter = <<>>])
    /\ UNCHANGED <<currentWorkspace, registry, glamour, currentConfig, loop>>
    /\ UNCHANGED webvars

FilterBackspace ==
    /\ Idle
    /\ m.filtering
    /\ m' = IF Len(m.filter) > 0
            THEN applyFilter([m EXCEPT !.filter = SubSeq(m.filter, 1, Len(m.filter) - 1)])
            ELSE m
    /\ UNCHANGED <<currentWorkspace, registry, glamour, currentConfig, loop>>
    /\ UNCHANGED webvars

FilterChar ==
    /\ Idle
    /\ m.filtering
    /\ Len(m.filter) < MaxFilter
    /\ \E c \in FilterChars : m' = applyFilter([m EXCEPT !.filter = Append(m.filter, c)])
    /\ UNCHANGED <<currentWorkspace, registry, glamour, currentConfig, loop>>
    /\ UNCHANGED webvars

\* msg.String() of the quit keys
QuitKeys == {<<"q">>, <<"c", "t", "r", "l", "+", "c">>}

\* a quit key while filtering falls in the default case: a key of one
\* character is appended to the filter, a longer one is ignored
FilterQuit ==
    /\ Idle
    /\ m.filtering
    /\ \E key \in QuitKeys :
        IF Len(key) = 1
        THEN /\ Len(m.filter) < MaxFilter
             /\ m' = applyFilter([m EXCEPT !.filter = m.filter \o key])
        ELSE m' = m
    /\ UNCHANGED <<currentWorkspace, registry, glamour, currentConfig, loop>>
    /\ UNCHANGED webvars

\* a key outside filtering
Browsing == Idle /\ ~m.filtering

KeyQuit ==
    /\ Browsing
    /\ m' = [m EXCEPT !.quitting = TRUE]
    /\ UNCHANGED <<currentWorkspace, registry, glamour, currentConfig, loop>>
    /\ UNCHANGED webvars

\* "?" and "/"
KeySearch ==
    /\ Browsing
    /\ m' = [m EXCEPT !.filtering = TRUE, !.activeTab = 0]
    /\ UNCHANGED <<currentWorkspace, registry, glamour, currentConfig, loop>>
    /\ UNCHANGED webvars

KeyEsc ==
    /\ Browsing
    /\ m' = IF m.filter # <<>> THEN filterByTab([m EXCEPT !.filter = <<>>]) ELSE m
    /\ UNCHANGED <<currentWorkspace, registry, glamour, currentConfig, loop>>
    /\ UNCHANGED webvars

\* the first statements of updateWebPreview: nothing is published without a server
PublishApplies(srv) == srv # 0

\* "up"/"down" with the cursor moved by `step` (-1 or +1): the move, loadDoc and,
\* with serverRunning, updateWebPreview up to its write of currentHTML
Navigate(step) ==
    /\ Browsing
    /\ IF Len(m.filteredItems) > 0
       THEN LET n == Len(m.filteredItems)
                cursor == (m.cursor + step + n) % n
                moved == [m EXCEPT !.cursor = cursor,
                                   !.currentPage = cursor \div getItemsPerPage(m)]
                sel == m.filteredItems[cursor + 1]
                loaded == loadDoc(moved, sel.name, currentWorkspace, glamour)
            IN  IF loaded.serverRunning /\ PublishApplies(httpServer)
                THEN /\ m' = loaded
                     /\ currentDocName' = sel.name
                     /\ currentCatName' = sel.category
                     /\ loop' = [pc |-> "html", doc |-> sel.name, cat |-> sel.category,
                                 content |-> loaded.docContent]
                ELSE /\ m' = Tick(loaded)
                     /\ UNCHANGED <<currentDocName, currentCatName, loop>>
       ELSE /\ m' = Tick(m)
            /\ UNCHANGED <<currentDocName, currentCatName, loop>>
    /\ UNCHANGED <<currentWorkspace, registry, glamour, currentConfig, httpServer, currentHTML,
                   servers, starts, listens, handlers, crashed>>

KeyUp == Navigate(-1)

KeyDown == Navigate(1)

\* updateWebPreview's write of currentHTML, and the rest of Update after it
PublishHTML ==
    /\ loop.pc = "html"
    /\ ~crashed
    /\ currentHTML' = generateFullPageHTML(loop.doc, ConvertHTML(loop.content),
                                           loop.cat, loop.doc, currentConfig)
    /\ m' = Tick(m)
    /\ loop' = [pc |-> "idle"]
    /\ UNCHANGED <<currentWorkspace, registry, glamour, currentConfig, httpServer, currentDocName,
                   currentCatName, servers, starts, listens, handlers, crashed>>

\* pgup, pgdown, left, right, "f", the mouse wheel: they scroll the viewport or
\* open the file manager
KeyScroll ==
    /\ Browsing
    /\ m' = Tick(m)
    /\ UNCHANGED <<currentWorkspace, registry, glamour, currentConfig, loop>>
    /\ UNCHANGED webvars

KeyTab ==
    /\ Browsing
    /\ m' = Tick([filterByTab([m EXCEPT
                    !.activeTab = (m.activeTab + 1) % (Len(m.config.Categories) + 1),
                    !.filter = <<>>])
                  EXCEPT !.cursor = 0, !.currentPage = 0])
    /\ UNCHANGED <<currentWorkspace, registry, glamour, currentConfig, loop>>
    /\ UNCHANGED webvars

KeyShiftTab ==
    /\ Browsing
    /\ m' = Tick([filterByTab([m EXCEPT
                    !.activeTab = IF m.activeTab - 1 < 0 THEN Len(m.config.Categories)
                                  ELSE m.activeTab - 1,
                    !.filter = <<>>])
                  EXCEPT !.cursor = 0, !.currentPage = 0])
    /\ UNCHANGED <<currentWorkspace, registry, glamour, currentConfig, loop>>
    /\ UNCHANGED webvars

\* "enter": copy the current document to the clipboard
KeyEnter ==
    /\ Browsing
    /\ m' = Tick(IF m.docContent # EmptyString THEN Notice(m, <<"Copied!">>) ELSE m)
    /\ UNCHANGED <<currentWorkspace, registry, glamour, currentConfig, loop>>
    /\ UNCHANGED webvars

\* a "w" that never finds the preview started
NeverRunning(mm) == FALSE

\* "w" finds the preview already started
ServerAlreadyRunning(mm) == mm.serverRunning

\* the arguments of `go serveMarkdown(...)`, evaluated by Update
StartArgs(mm, ws) ==
    IF mm.docCacheKey # sWelcome
    THEN [title |-> mm.docCacheKey, content |-> mm.docContent,
          cat |-> CategoryOf(mm.items, mm.docCacheKey), doc |-> mm.docCacheKey]
    ELSE [title |-> sPreview, content |-> generateWelcomeContent(mm.config, getDataDir(ws)),
          cat |-> sOverview, doc |-> sREADME]

KeyW ==
    /\ Browsing
    /\ IF m.docContent # EmptyString
       THEN IF ServerAlreadyRunning(m)
            THEN /\ m' = Tick(Notice(m, <<"Opening...">>))
                 /\ UNCHANGED starts
            ELSE /\ Len(servers) + Len(starts) < MaxServers
                 /\ m' = Tick(Notice([m EXCEPT !.serverRunning = TRUE],
                                     <<"Web preview on :8080">>))
                 /\ starts' = Append(starts, [pc |-> "names",
                                              args |-> StartArgs(m, currentWorkspace)])
       ELSE /\ m' = Tick(m)
            /\ UNCHANGED starts
    /\ UNCHANGED <<currentWorkspace, registry, glamour, currentConfig, loop, httpServer, currentHTML,
                   currentDocName, currentCatName, servers, listens, handlers, crashed>>

\* a stop that does not look at httpServer
AlwaysStops(srv) == TRUE

\* "s" and "W" stop the server only when the global httpServer is set
StopApplies(srv) == srv # 0

\* http.Server.Close: the listener is closed and the server never serves again
CloseServer(srvs, id) == [srvs EXCEPT ![id] = "closed"]

KeyS ==
    /\ Browsing
    /\ IF StopApplies(httpServer)
       THEN /\ servers' = CloseServer(servers, httpServer)
            /\ httpServer' = 0
            /\ m' = Tick(Notice([m EXCEPT !.serverRunning = FALSE], <<"Server stopped">>))
       ELSE /\ m' = Tick(m)
            /\ UNCHANGED <<servers, httpServer>>
    /\ UNCHANGED <<currentWorkspace, registry, glamour, currentConfig, loop, currentHTML,
                   currentDocName, currentCatName, starts, listens, handlers, crashed>>

\* RunWorkspaceSelector: nil (0) for an empty list, else the workspace picked
SelectorOutcomes(reg) ==
    IF ~reg.ok \/ reg.workspaces = <<>> THEN {0}
    ELSE {reg.workspaces[i] : i \in 1..Len(reg.workspaces)}

\* a switch that keeps the cursor and the page where they were
SwitchedKeepingCursor(mm, sel, gl) ==
    LET config == DocsYaml[sel].config
        items == createItems(config)
    IN  Notice([mm EXCEPT !.config = config,
                          !.items = items,
                          !.filteredItems = items,
                          !.activeTab = 0,
                          !.filter = <<>>],
               <<"Switched to: ", Workspaces[sel].name>>)

\* a switch that keeps the tab where it was
SwitchedKeepingTab(mm, sel, gl) ==
    LET config == DocsYaml[sel].config
        items == createItems(config)
        welcomeContent == generateWelcomeContent(config, getDataDir(sel))
        welcomeRendered == RenderMarkdown(welcomeContent, gl)
    IN  Notice([mm EXCEPT !.config = config,
                          !.items = items,
                          !.filteredItems = items,
                          !.cursor = 0,
                          !.currentPage = 0,
                          !.filter = <<>>,
                          !.viewport = welcomeRendered,
                          !.docContent = welcomeContent],
               <<"Switched to: ", Workspaces[sel].name>>)

\* the session after the new workspace's docs.yaml was read and parsed
SwitchedModel(mm, sel, gl) ==
    LET config == DocsYaml[sel].config
        items == createItems(config)
        welcomeContent == generateWelcomeContent(config, getDataDir(sel))
        welcomeRendered == RenderMarkdown(welcomeContent, gl)
    IN  Notice([mm EXCEPT !.config = config,
                          !.items = items,
                          !.filteredItems = items,
                          !.activeTab = 0,
                          !.cursor = 0,
                          !.currentPage = 0,
                          !.filter = <<>>,
                          !.viewport = welcomeRendered,
                          !.docContent = welcomeContent],
               <<"Switched to: ", Workspaces[sel].name>>)

\* "W" with LoadWorkspaceConfig's result and the workspace picked in the selector
SwitchWorkspace(reg, sel) ==
    /\ Browsing
    /\ IF StopApplies(httpServer)
       THEN /\ servers' = CloseServer(servers, httpServer)
            /\ httpServer' = 0
       ELSE UNCHANGED <<servers, httpServer>>
    /\ LET stopped == IF StopApplies(httpServer)
                      THEN [m EXCEPT !.serverRunning = FALSE] ELSE m
       IN  CASE ~reg.ok ->
                  /\ m' = Notice(stopped, <<"Failed to load workspaces">>)
                  /\ UNCHANGED currentWorkspace
             [] sel = 0 ->
                  /\ m' = Tick(stopped)
                  /\ UNCHANGED currentWorkspace
             [] OTHER ->
                  /\ currentWorkspace' = sel
                  /\ m' = IF ~DocsYaml[sel].read
                          THEN Notice(stopped, <<"Failed to load docs config">>)
                          ELSE IF ~DocsYaml[sel].parse
                          THEN Notice(stopped, <<"Failed to parse docs config">>)
                          ELSE Tick(SwitchedModel(stopped, sel, glamour))
    /\ UNCHANGED <<registry, glamour, currentConfig, loop, currentHTML, currentDocName,
                   currentCatName, starts, listens, handlers, crashed>>

KeySwitchWorkspace ==
    \E sel \in SelectorOutcomes(registry) : SwitchWorkspace(registry, sel)

-----------------------------------------------------------------------------
(* serveMarkdown, run as a goroutine, and the goroutine it starts.         *)

RemoveAt(seq, i) == SubSeq(seq, 1, i - 1) \o SubSeq(seq, i + 1, Len(seq))

\* currentDocName = docName; currentCatName = catName
StartNames ==
    /\ ~crashed /\ ~m.quitting
    /\ \E i \in 1..Len(starts) :
        /\ starts[i].pc = "names"
        /\ currentDocName' = starts[i].args.doc
        /\ currentCatName' = starts[i].args.cat
        /\ starts' = [starts EXCEPT ![i].pc = "html"]
    /\ UNCHANGED <<m, currentWorkspace, registry, glamour, currentConfig, loop, httpServer,
                   currentHTML, servers, listens, handlers, crashed>>

\* currentHTML = generateFullPageHTML(title, htmlContent, catName, docName)
StartHTML ==
    /\ ~crashed /\ ~m.quitting
    /\ \E i \in 1..Len(starts) :
        /\ starts[i].pc = "html"
        /\ currentHTML' = generateFullPageHTML(starts[i].args.title,
                              ConvertHTML(starts[i].args.content),
                              starts[i].args.cat, starts[i].args.doc, currentConfig)
        /\ starts' = [starts EXCEPT ![i].pc = "check"]
    /\ UNCHANGED <<m, currentWorkspace, registry, glamour, currentConfig, loop, httpServer,
                   currentDocName, currentCatName, servers, listens, handlers, crashed>>

\* if httpServer != nil { return }
StartCheck ==
    /\ ~crashed /\ ~m.quitting
    /\ \E i \in 1..Len(starts) :
        /\ starts[i].pc = "check"
        /\ starts' = IF httpServer # 0 THEN RemoveAt(starts, i)
                     ELSE [starts EXCEPT ![i].pc = "serve"]
    /\ UNCHANGED <<m, currentWorkspace, registry, glamour, currentConfig, loop, httpServer,
                   currentHTML, currentDocName, currentCatName, servers, listens,
                   handlers, crashed>>

\* httpServer = &http.Server{...}; go func() { httpServer.ListenAndServe() }()
StartServe ==
    /\ ~crashed /\ ~m.quitting
    /\ \E i \in 1..Len(starts) :
        /\ starts[i].pc = "serve"
        /\ servers' = Append(servers, "new")
        /\ httpServer' = Len(servers) + 1
        /\ listens' = listens + 1
        /\ starts' = RemoveAt(starts, i)
    /\ UNCHANGED <<m, currentWorkspace, registry, glamour, currentConfig, loop, currentHTML,
                   currentDocName, currentCatName, handlers, crashed>>

Listening == {id \in 1..Len(servers) : servers[id] = "listening"}

\* net.Listen on :8080: taken by this process, or by another one
BindOutcomes(srvs) ==
    IF \E id \in 1..Len(srvs) : srvs[id] = "listening"
    THEN {"failed"}
    ELSE {"listening", "failed"}

\* httpServer.ListenAndServe() in its goroutine: the global is read when it runs
ListenAndServe ==
    /\ ~crashed /\ ~m.quitting
    /\ listens > 0
    /\ listens' = listens - 1
    /\ IF httpServer = 0
       THEN /\ crashed' = TRUE
            /\ UNCHANGED servers
       ELSE /\ UNCHANGED crashed
            /\ IF servers[httpServer] \in {"closed", "listening"}
               THEN UNCHANGED servers
               ELSE \E outcome \in BindOutcomes(servers) :
                        servers' = [servers EXCEPT ![httpServer] = outcome]
    /\ UNCHANGED <<m, currentWorkspace, registry, glamour, currentConfig, loop, httpServer,
                   currentHTML, currentDocName, currentCatName, starts, handlers>>

-----------------------------------------------------------------------------
(* The handler of GET /.                                                   *)

\* a writer of currentHTML stands at its write
WritingHTML ==
    \/ loop.pc = "html"
    \/ \E i \in 1..Len(starts) : starts[i].pc = "html"

\* a handler that stores the page it builds as the published one
HandleRequestPublishing ==
    /\ ~crashed /\ ~m.quitting
    /\ Listening # {}
    /\ Cardinality(handlers) < MaxHandlers
    /\ \E req \in Requests :
        LET html == HandlerPage(req, currentWorkspace, currentConfig)
        IN  /\ handlers' = handlers \cup
                {[req |-> req, html |-> html,
                  pc |-> IF html = NoPage THEN "read" ELSE "write"]}
            /\ currentHTML' = IF html = NoPage THEN currentHTML ELSE html
    /\ UNCHANGED <<m, currentWorkspace, registry, glamour, currentConfig, loop, httpServer,
                   currentDocName, currentCatName, servers, starts, listens, crashed>>

\* the request arrives: headers, parameters, and the page for doc and cat if any
HandleRequest ==
    /\ ~crashed /\ ~m.quitting
    /\ Listening # {}
    /\ Cardinality(handlers) < MaxHandlers
    /\ \E req \in Requests :
        LET html == HandlerPage(req, currentWorkspace, currentConfig)
        IN  handlers' = handlers \cup
                {[req |-> req, html |-> html,
                  pc |-> IF html = NoPage THEN "read" ELSE "write"]}
    /\ UNCHANGED <<m, currentWorkspace, registry, glamour, currentConfig, loop, httpServer,
                   currentHTML, currentDocName, currentCatName, servers, starts, listens,
                   crashed>>

\* the same handler for a request typed in the address bar
HandleTypedRequest ==
    /\ ~crashed /\ ~m.quitting
    /\ Listening # {}
    /\ Cardinality(handlers) < MaxHandlers
    /\ \E req \in TypedRequests(currentWorkspace) :
        LET html == HandlerPage(req, currentWorkspace, currentConfig)
        IN  handlers' = handlers \cup
                {[req |-> req, html |-> html,
                  pc |-> IF html = NoPage THEN "read" ELSE "write"]}
    /\ UNCHANGED <<m, currentWorkspace, registry, glamour, currentConfig, loop, httpServer,
                   currentHTML, currentDocName, currentCatName, servers, starts, listens,
                   crashed>>

\* html = currentHTML, with no lock held
HandlerRead ==
    /\ ~crashed /\ ~m.quitting
    /\ \E h \in handlers :
        /\ h.pc = "read"
        /\ \E seen \in (IF WritingHTML THEN {currentHTML, TornPage} ELSE {currentHTML}) :
            handlers' = (handlers \ {h}) \cup {[h EXCEPT !.html = seen, !.pc = "write"]}
    /\ UNCHANGED <<m, currentWorkspace, registry, glamour, currentConfig, loop, httpServer,
                   currentHTML, currentDocName, currentCatName, servers, starts, listens,
                   crashed>>

\* fmt.Fprint(w, html)
HandlerWrite ==
    /\ ~crashed /\ ~m.quitting
    /\ \E h \in handlers :
        /\ h.pc = "write"
        /\ handlers' = handlers \ {h}
    /\ UNCHANGED <<m, currentWorkspace, registry, glamour, currentConfig, loop, httpServer,
                   currentHTML, currentDocName, currentCatName, servers, starts, listens,
                   crashed>>

-----------------------------------------------------------------------------
(* Specifications.                                                         *)

Next ==
    \/ WindowSizeMsg
    \/ FilterEnter
    \/ FilterEsc
    \/ FilterBackspace
    \/ FilterChar
    \/ FilterQuit
    \/ KeyQuit
    \/ KeySearch
    \/ KeyEsc
    \/ KeyUp
    \/ KeyDown
    \/ PublishHTML
    \/ KeyScroll
    \/ KeyTab
    \/ KeyShiftTab
    \/ KeyEnter
    \/ KeyW
    \/ KeyS
    \/ KeySwitchWorkspace
    \/ StartNames
    \/ StartHTML
    \/ StartCheck
    \/ StartServe
    \/ ListenAndServe
    \/ HandleRequest
    \/ HandleTypedRequest
    \/ HandlerRead
    \/ HandlerWrite

Spec == Init /\ [][Next]_vars

\* The web preview of one workspace: navigation, "w", "s", the goroutines, GET /.
NextWeb ==
    \/ KeyUp
    \/ KeyDown
    \/ PublishHTML
    \/ KeyW
    \/ KeyS
    \/ StartNames
    \/ StartHTML
    \/ StartCheck
    \/ StartServe
    \/ ListenAndServe
    \/ HandleRequest
    \/ HandlerRead
    \/ HandlerWrite

SpecWeb == InitIn(2, FullRegistry) /\ [][NextWeb]_vars

\* The server's life across "w", "s" and "W".
NextLifecycle ==
    \/ KeyW
    \/ KeyS
    \/ KeySwitchWorkspace
    \/ StartNames
    \/ StartHTML
    \/ StartCheck
    \/ StartServe
    \/ ListenAndServe

SpecLifecycle ==
    /\ \E reg \in {BrokenRegistry, EmptyRegistry, FullRegistry} : InitIn(1, reg)
    /\ [][NextLifecycle]_vars

\* The render cache across resizes and workspace switches.
NextCache ==
    \/ WindowSizeMsg
    \/ KeyDown
    \/ KeySwitchWorkspace

SpecCache == InitIn(1, LoadableRegistry) /\ [][NextCache]_vars

\* The session across workspace switches.
NextSwitch ==
    \/ KeySearch
    \/ FilterChar
    \/ FilterEnter
    \/ KeyTab
    \/ KeyDown
    \/ KeySwitchWorkspace

SpecSwitch == InitIn(1, BetaRegistry) /\ [][NextSwitch]_vars

\* The keys of Browsing and Filtering in one workspace.
NextBrowse ==
    \/ KeySearch
    \/ FilterChar
    \/ FilterBackspace
    \/ FilterEnter
    \/ FilterEsc
    \/ FilterQuit
    \/ KeyQuit
    \/ KeyEsc
    \/ KeyUp
    \/ KeyDown
    \/ KeyTab
    \/ KeyShiftTab

SpecBrowse == InitIn(1, FullRegistry) /\ [][NextBrowse]_vars

\* The keys of Browsing and Filtering across workspace switches.
NextCursor ==
    \/ KeySearch
    \/ FilterChar
    \/ FilterBackspace
    \/ FilterEnter
    \/ FilterEsc
    \/ KeyEsc
    \/ KeyUp
    \/ KeyDown
    \/ KeyTab
    \/ KeyShiftTab
    \/ KeySwitchWorkspace

SpecCursor == InitIn(1, BetaRegistry) /\ [][NextCursor]_vars

\* Navigation over several pages, in windows of several sizes.
NextNav ==
    \/ WindowSizeMsg
    \/ KeyUp
    \/ KeyDown
    \/ KeyTab
    \/ KeyShiftTab

SpecNav == InitIn(5, FullRegistry) /\ [][NextNav]_vars

\* One web preview, never stopped: "w", navigation, the goroutines, GET /.
NextServe ==
    \/ KeyDown
    \/ PublishHTML
    \/ KeyW
    \/ StartNames
    \/ StartHTML
    \/ StartCheck
    \/ StartServe
    \/ ListenAndServe
    \/ HandleRequest
    \/ HandlerRead
    \/ HandlerWrite

SpecServe == InitIn(2, FullRegistry) /\ [][NextServe]_vars

\* Paging of a view longer than a page, across navigation, tabs and filtering.
NextPage ==
    \/ WindowSizeMsg
    \/ KeyUp
    \/ KeyDown
    \/ KeyTab
    \/ KeySearch
    \/ FilterEnter
    \/ FilterEsc

SpecPage == InitIn(5, FullRegistry) /\ [][NextPage]_vars

\* The terminal and the sidebar links of the page it serves.
SpecLinks == InitIn(8, FullRegistry) /\ [][NextServe]_vars

\* loadDoc across navigation and resizes in one workspace.
NextLoad ==
    \/ WindowSizeMsg
    \/ KeyUp
    \/ KeyDown

SpecLoad == InitIn(8, FullRegistry) /\ [][NextLoad]_vars

\* loadDoc with a renderer that works or fails, over files with and without text.
SpecRender ==
    /\ \E ws \in {7, 8} : InitIn(ws, FullRegistry) \/ InitFailing(ws, FullRegistry)
    /\ [][NextLoad]_vars

\* The document index of every configuration, at startup and after "W".
NextIndex ==
    \/ KeyTab
    \/ KeyShiftTab
    \/ KeySwitchWorkspace

SpecIndex ==
    /\ \E ws \in StartWorkspaces : InitIn(ws, StartableRegistry)
    /\ [][NextIndex]_vars

\* Resolution of names to files, in the terminal and through GET /.
NextResolve ==
    \/ KeyDown
    \/ PublishHTML
    \/ KeyW
    \/ StartNames
    \/ StartHTML
    \/ StartCheck
    \/ StartServe
    \/ ListenAndServe
    \/ HandleTypedRequest
    \/ HandlerRead
    \/ HandlerWrite

SpecResolve == InitIn(6, FullRegistry) /\ [][NextResolve]_vars

SpecResolveEmpty == InitIn(7, FullRegistry) /\ [][NextResolve]_vars

SpecResolveFound == InitIn(8, FullRegistry) /\ [][NextResolve]_vars

-----------------------------------------------------------------------------
(* Properties.                                                             *)

\* C1: no handler stands at its read of currentHTML while the interactive
\* side (updateWebPreview in Update, or serveMarkdown in its goroutine) stands
\* at its write of it: reads and writes of the snapshot are mutually exclusive.
C1_SnapshotMutualExclusion ==
    ~(WritingHTML /\ \E h \in handlers : h.pc = "read")

\* C2: once "w" has started the server, the navigation since then has been
\* processed and the start goroutine has finished, the published page (what
\* GET / with no parameters returns) has the selected document as its title.
C2_NavigationPublished ==
    ( /\ m.serverRunning
      /\ httpServer # 0
      /\ starts = <<>>
      /\ loop.pc = "idle"
      /\ m.docCacheKey # sWelcome )
    => (currentHTML # NoPage /\ currentHTML.title = m.docCacheKey)

\* the raw content loadDoc resolves for an item when nothing is cached
ResolvedRaw(name) ==
    IF name = sREADME
    THEN generateWelcomeContent(m.config, getDataDir(currentWorkspace))
    ELSE loadDoc([m EXCEPT !.docCache = <<>>], name, currentWorkspace, glamour).docContent

\* C3: when up/down pushes to the web side, the content pushed is the raw
\* content resolved for the item whose name is pushed as the title, also for
\* an item found in the render cache and for the overview item.
C3_PushedContentIsSelected ==
    loop.pc = "html" => loop.content = ResolvedRaw(loop.doc)

\* C4: a step that changes the width or the current workspace leaves no
\* entry of the render cache as it was before the step.
C4_CacheDiscarded ==
    [][(m'.width # m.width \/ currentWorkspace' # currentWorkspace)
        => \A k \in DOMAIN m.docCache :
              k \notin DOMAIN m'.docCache \/ m'.docCache[k] # m.docCache[k]]_vars

\* "W" picks a workspace whose docs.yaml cannot be read or parsed
FailedSwitch ==
    \E sel \in SelectorOutcomes(registry) :
        /\ sel # 0
        /\ ~(DocsYaml[sel].read /\ DocsYaml[sel].parse)
        /\ SwitchWorkspace(registry, sel)

\* C5: a "W" whose docs.yaml read or parse fails changes nothing but the
\* notice: the session, the current workspace and the server stay as they were.
C5_FailedSwitchKeepsSession ==
    [][FailedSwitch
        => /\ m' = [m EXCEPT !.toast = m'.toast, !.toastTimer = m'.toastTimer]
           /\ currentWorkspace' = currentWorkspace
           /\ httpServer' = httpServer
           /\ servers' = servers]_vars

\* "W" picks a workspace whose docs.yaml is read and parsed
SuccessfulSwitch ==
    \E sel \in SelectorOutcomes(registry) :
        /\ sel # 0
        /\ DocsYaml[sel].read /\ DocsYaml[sel].parse
        /\ SwitchWorkspace(registry, sel)

\* C6: after a successful switch the items are createItems of the new
\* configuration, the view is all the items, the filter is empty, the session
\* is not filtering, and cursor, page and tab are 0.
C6_SwitchResetsSession ==
    [][SuccessfulSwitch
        => /\ m'.config = DocsYaml[currentWorkspace'].config
           /\ m'.items = createItems(DocsYaml[currentWorkspace'].config)
           /\ m'.filteredItems = m'.items
           /\ m'.filter = <<>>
           /\ ~m'.filtering
           /\ m'.cursor = 0
           /\ m'.currentPage = 0
           /\ m'.activeTab = 0]_vars

\* a switch from a session whose cursor was moved and whose cache was filled
C6_Switched ==
    /\ m.toast = <<"Switched to: ", Workspaces[2].name>>
    /\ m.toastTimer = ToastTicks - 1
    /\ currentWorkspace = 2
    /\ m.docCacheKey # sWelcome
    /\ m.cursor = 0

\* "W" was the last key processed and it switched the workspace
JustSwitched ==
    /\ Len(m.toast) = 2
    /\ m.toast[1] = "Switched to: "
    /\ m.toastTimer = ToastTicks - 1

LiveServers == {id \in 1..Len(servers) : servers[id] # "closed"}

\* C7: after "W" has switched the workspace and every start goroutine has
\* run, there is no server and serverRunning is false.
C7_SwitchStopsServer ==
    (JustSwitched /\ starts = <<>> /\ listens = 0)
    => (~m.serverRunning /\ httpServer = 0 /\ LiveServers = {})

\* C8: the starts in flight and the servers not closed are never more than
\* one together, and at most one server listens.
C8_OneServer ==
    /\ Len(starts) + Cardinality(LiveServers) <= 1
    /\ Cardinality(Listening) <= 1

\* "w" was pressed while the preview was running
C8_SecondW ==
    /\ m.toast = <<"Opening...">>
    /\ m.toastTimer = ToastTicks - 1
    /\ Listening # {}
    /\ Len(servers) = 1

\* C9 as stated: "s" with no server changes neither serverRunning nor the
\* toast and leaves httpServer nil.
C9_StopWithoutServerChangesNothing ==
    [][(KeyS /\ httpServer = 0)
        => /\ m'.serverRunning = m.serverRunning
           /\ m'.toast = m.toast
           /\ httpServer' = 0]_vars

\* C9: "s" leaves httpServer nil, and with no server to stop it only runs the
\* toast countdown of Update: serverRunning, httpServer and the servers are as
\* before and no toast is set, so a second "s" in a row stops nothing more.
C9_StopIdempotent ==
    [][KeyS
        => /\ httpServer' = 0
           /\ httpServer = 0
                => /\ m' = Tick(m)
                   /\ m'.serverRunning = m.serverRunning
                   /\ m'.toast \in {m.toast, <<>>}
                   /\ servers' = servers]_vars

\* "s" pressed twice in a row: the second one found no server (with the full
\* registry every "W" sets a toast, and "w" does, so the second tick is of "s")
C9_StoppedTwice ==
    /\ m.toast = <<"Server stopped">>
    /\ m.toastTimer = ToastTicks - 2
    /\ registry = FullRegistry
    /\ httpServer = 0
    /\ ~m.serverRunning

\* C10: when the bind of :8080 has failed and nothing is in flight,
\* serverRunning is false and the toast is not the one announcing the preview.
C10_BindFailureReported ==
    ( /\ httpServer # 0
      /\ servers[httpServer] = "failed"
      /\ starts = <<>>
      /\ listens = 0 )
    => (~m.serverRunning /\ m.toast # <<"Web preview on :8080">>)

\* C11: a request whose doc and cat resolve to a file is answered with the
\* page built from that file, and any other request is answered with exactly
\* currentHTML as it is when the handler reads it.
C11_HandlerResponse ==
    [][\A h \in handlers' \ handlers :
          LET content == loadDocContentFromDisk(h.req.cat, h.req.doc, currentWorkspace)
          IN  IF h.req.doc # <<>> /\ content # EmptyString
              THEN /\ h.pc = "write"
                   /\ h.html = generateFullPageHTML(h.req.doc, ConvertHTML(content),
                                                    h.req.cat, h.req.doc, currentConfig)
              ELSE h.pc = "write" => h.html = currentHTML]_vars

\* C12: no step of the handler of GET / (arrival, read of currentHTML,
\* response) changes currentHTML, currentDocName, currentCatName or the session.
C12_HandlerChangesNothing ==
    [][(HandleRequest \/ HandlerRead \/ HandlerWrite)
        => UNCHANGED <<currentHTML, currentDocName, currentCatName, m,
                       currentWorkspace, currentConfig>>]_vars

\* a request with doc and cat was answered with its own page while the
\* published page is another one
C12_ParameterizedServed ==
    \E h \in handlers :
        /\ h.req.doc # <<>>
        /\ h.pc = "write"
        /\ h.html # NoPage
        /\ currentHTML # NoPage
        /\ h.html # currentHTML

\* the loop is between messages and the session is Browsing
BetweenKeys == loop.pc = "idle" /\ ~m.quitting /\ ~crashed /\ ~m.filtering

\* C13: between messages "s" can always be processed, whatever the start and
\* listen goroutines have done so far, and the Update step of "w" or "s" ends
\* between messages without having run any step of a goroutine: "w" leaves the
\* server to be created later, and no bind happens within the step.
C13_KeysNeverWait ==
    /\ [](BetweenKeys => ENABLED KeyS)
    /\ [][(KeyW \/ KeyS)
           => /\ loop'.pc = "idle"
              /\ listens' = listens
              /\ Len(servers') = Len(servers)
              /\ Len(starts') >= Len(starts)
              /\ \A i \in 1..Len(starts) : starts'[i] = starts[i]]_vars

\* another key was processed after "w" while its goroutine has not yet run
C13_KeyWhileStarting ==
    /\ Len(starts) = 1
    /\ starts[1].pc = "names"
    /\ m.serverRunning
    /\ m.toast = <<"Web preview on :8080">>
    /\ m.toastTimer = ToastTicks - 2

\* C14: a quit key pressed in any state, Filtering included, sets quitting,
\* and no step leaves quitting.
C14_QuitFromEveryState ==
    [][/\ (KeyQuit \/ FilterQuit) => m'.quitting
       /\ m.quitting => m'.quitting]_vars

\* C15: "/" or "?" in Browsing changes only filtering: the filter, the view,
\* the cursor, the page and the active tab are as before.
C15_SearchKeyOnlyEntersFiltering ==
    [][KeySearch
        => /\ m'.filtering
           /\ m'.filter = m.filter
           /\ m'.filteredItems = m.filteredItems
           /\ m'.cursor = m.cursor
           /\ m'.currentPage = m.currentPage
           /\ m'.activeTab = m.activeTab]_vars

\* the items whose lowercased FilterValue contains the lowercased query
MatchingConcatenation(items, query) ==
    LET Match(i) == Contains(ToLower(FilterValue(i)), ToLower(query))
    IN  SelectSeq(items, Match)

\* C16: after a character is typed or deleted while filtering and the buffer
\* is not empty, the view is the items, in index order, whose lowercased
\* concatenation of name, description and category contains the lowercased
\* buffer.
C16_ViewIsConcatenationMatch ==
    [][((FilterChar \/ FilterBackspace) /\ m'.filter # <<>>)
        => m'.filteredItems = MatchingConcatenation(m.items, m'.filter)]_vars

\* C17: when a backspace empties the filter buffer while filtering, the view
\* is the complete item list and cursor and page are 0 as at startup.
C17_EmptyFilterRestoresStartup ==
    [][(FilterBackspace /\ m.filter # <<>> /\ m'.filter = <<>>)
        => /\ m'.filteredItems = m.items
           /\ m'.cursor = 0
           /\ m'.currentPage = 0]_vars

\* C18: whenever the view is not empty the cursor is an index of it.
C18_CursorInView ==
    Len(m.filteredItems) > 0 => (0 <= m.cursor /\ m.cursor < Len(m.filteredItems))

\* the cursor is on the last item of a view narrowed by a filter or a tab
C18_CursorAtEndOfNarrowView ==
    /\ Len(m.filteredItems) < Len(m.items)
    /\ m.cursor > 0
    /\ m.cursor = Len(m.filteredItems) - 1

TabSelected(t) ==
    LET InTab(i) == i.category = m.config.Categories[t].Name
    IN  /\ m'.activeTab = t
        /\ m'.filter = <<>>
        /\ m'.filteredItems = IF t = 0 THEN m.items ELSE SelectSeq(m.items, InTab)
        /\ m'.cursor = 0
        /\ m'.currentPage = 0

\* C20: Tab selects tab (activeTab+1) mod (categoryCount+1) and Shift+Tab tab
\* (activeTab-1) mod (categoryCount+1); both empty the filter, set the view to
\* the tab's items in item order and reset cursor and page to 0.
C20_TabCycles ==
    [][LET n == Len(m.config.Categories) + 1
       IN  /\ KeyTab => TabSelected((m.activeTab + 1) % n)
           /\ KeyShiftTab => TabSelected((m.activeTab + n - 1) % n)]_vars

\* a tab key selected the last category while another view was shown
C20_LastTab ==
    /\ m.activeTab = Len(m.config.Categories)
    /\ m.activeTab = 2
    /\ Len(m.filteredItems) = 1
    /\ m.filter = <<>>
    /\ m.docCacheKey # sWelcome

\* the five candidates of a logical name, in probing order
FiveCandidates(name) ==
    << name \o sMd,
       ReplaceAll(name, " ", <<"-">>) \o sMd,
       ReplaceAll(name, " ", <<>>) \o sMd,
       ReplaceAll(name, "-", <<" ">>) \o sMd,
       ReplaceAll(name, "-", <<>>) \o sMd >>

FileExists(path) == \E f \in Disk : f[1] = path

\* the first of the five candidates that is a file of the folder: its path and
\* content, path <<>> when there is none
FirstOfFive(dir, name) ==
    LET names == FiveCandidates(name)
        Hits == {i \in 1..Len(names) : FileExists(Join2(dir, names[i]))}
    IN  IF Hits = {} THEN [path |-> <<>>, content |-> EmptyString]
        ELSE LET k == CHOOSE i \in Hits : \A j \in Hits : i <= j
             IN  [path |-> Join2(dir, names[k]),
                  content |-> FileContent((CHOOSE f \in Disk : f[1] = Join2(dir, names[k]))[2])]

\* the item "down" moves the cursor to
NextItem == m.filteredItems[((m.cursor + 1) % Len(m.filteredItems)) + 1]

\* "down" loads an item that is not the overview and is not in the render cache
LoadsFromDisk ==
    /\ KeyDown
    /\ Len(m.filteredItems) > 0
    /\ NextItem.name # sREADME
    /\ NextItem.name \notin DOMAIN m.docCache

\* the folder the program resolves the item's category in
FolderDir(category) == Join2(getDataDir(currentWorkspace), FolderOf(category))

\* a request for a document other than the overview, with both parameters
DocRequest(h) == h.req.doc # <<>> /\ h.req.cat # <<>> /\ h.req.doc # sREADME

\* the handler answers with the page it built for a content
AnswersWith(h, content) ==
    /\ h.pc = "write"
    /\ h.html = generateFullPageHTML(h.req.doc, ConvertHTML(content), h.req.cat,
                                      h.req.doc, currentConfig)

\* C21: for a name other than the overview, the terminal's loadDoc and the
\* web endpoint both take the first of the five candidates name.md,
\* spaces->hyphens, spaces removed, hyphens->spaces, hyphens removed that is a
\* file of the category's folder.
C21_FiveCandidatesInOrder ==
    /\ [][LoadsFromDisk =>
            LET hit == FirstOfFive(FolderDir(NextItem.category), NextItem.name)
            IN  /\ m'.docPath = hit.path
                /\ hit.path # <<>> => m'.docContent = hit.content]_vars
    /\ [](\A h \in handlers :
            LET hit == FirstOfFive(FolderDir(h.req.cat), h.req.doc)
            IN  (DocRequest(h) /\ hit.path # <<>>) => AnswersWith(h, hit.content))

\* the file called exactly name.md in a folder
ExactFile(dir, name) == Join2(dir, name \o sMd)

ContentOfFile(path) == FileContent((CHOOSE f \in Disk : f[1] = path)[2])

\* C22: when the folder holds the file called exactly name.md, resolving the
\* name returns that file, whatever normalized variants the folder also holds
\* (the web endpoint counts a file as held when it is not empty).
C22_ExactNameFirst ==
    /\ [][LoadsFromDisk =>
            LET exact == ExactFile(FolderDir(NextItem.category), NextItem.name)
            IN  FileExists(exact) =>
                    /\ m'.docPath = exact
                    /\ m'.docContent = ContentOfFile(exact)]_vars
    /\ [](\A h \in handlers :
            LET exact == ExactFile(FolderDir(h.req.cat), h.req.doc)
            IN  (DocRequest(h) /\ FileExists(exact) /\ ContentOfFile(exact) # EmptyString)
                    => AnswersWith(h, ContentOfFile(exact)))

sAB == <<"A", " ", "B">>

\* "A B" was resolved in a folder holding "A B.md" and "A-B.md", by the
\* terminal and by a request
C22_BothFilesPresent ==
    LET dir == FolderDir(sPlayer)
    IN  /\ FileExists(ExactFile(dir, sAB))
        /\ FileExists(Join2(dir, ReplaceAll(sAB, " ", <<"-">>) \o sMd))
        /\ m.docCacheKey = sAB
        /\ m.docPath = ExactFile(dir, sAB)
        /\ \E h \in handlers : h.req.doc = sAB /\ AnswersWith(h, ContentOfFile(ExactFile(dir, sAB)))

\* the first of the five candidates that is a file of the folder and is not
\* empty: its path and content, path <<>> when there is none
FirstNonEmptyOfFive(dir, name) ==
    LET names == FiveCandidates(name)
        Hits == {i \in 1..Len(names) :
                    /\ FileExists(Join2(dir, names[i]))
                    /\ ContentOfFile(Join2(dir, names[i])) # EmptyString}
    IN  IF Hits = {} THEN [path |-> <<>>, content |-> EmptyString]
        ELSE LET k == CHOOSE i \in Hits : \A j \in Hits : i <= j
             IN  [path |-> Join2(dir, names[k]), content |-> ContentOfFile(Join2(dir, names[k]))]

\* C23: resolution returns the first candidate that is a file and is not
\* empty, skipping empty files; when every candidate is missing or empty the
\* terminal shows the not-found placeholder and the web endpoint builds no
\* page for the request (it goes on to read the published page).
C23_EmptyCandidateSkipped ==
    /\ [][LoadsFromDisk =>
            LET hit == FirstNonEmptyOfFive(FolderDir(NextItem.category), NextItem.name)
            IN  IF hit.path = <<>>
                THEN /\ m'.docPath = <<>>
                     /\ m'.docContent = NotFoundContent(NextItem.name, NextItem.category,
                                                        FolderOf(NextItem.category))
                ELSE /\ m'.docPath = hit.path
                     /\ m'.docContent = hit.content]_vars
    /\ [][HandleTypedRequest =>
            \A h \in handlers' \ handlers :
                LET hit == FirstNonEmptyOfFive(FolderDir(h.req.cat), h.req.doc)
                IN  DocRequest(h) =>
                        IF hit.path = <<>> THEN h.pc = "read"
                        ELSE AnswersWith(h, hit.content)]_vars

\* the category labels of the fixed mapping table
MappedLabels == {sCore, sResponsive, sHelpers, sComponents, sTemplates, sPlayer}

\* the default folder of the current workspace
DefaultDir == Join2(getDataDir(currentWorkspace), fCore)

DocumentedFolder(category) ==
    CASE category = sCore -> fCore
      [] category = sComponents -> fComponents
      [] category = sGettingStarted -> fGettingStarted
      [] category = <<"A", "P", "I", " ", "R", "e", "f", "e", "r", "e", "n", "c", "e">> -> <<"a", "p", "i">>
      [] OTHER -> <<>>

\* C25: a document whose category is in the documented table is resolved in
\* the folder the table gives (Components -> components, Getting Started ->
\* getting-started, API Reference -> api), by the terminal and by GET /: a
\* file name.md placed in that folder is found.
C25_DocumentedFolderMapping ==
    /\ [][(LoadsFromDisk /\ DocumentedFolder(NextItem.category) # <<>>) =>
            LET exact == ExactFile(Join2(getDataDir(currentWorkspace),
                                         DocumentedFolder(NextItem.category)),
                                   NextItem.name)
            IN  FileExists(exact) =>
                    /\ m'.docPath = exact
                    /\ m'.docContent = ContentOfFile(exact)]_vars
    /\ [][HandleTypedRequest =>
            \A h \in handlers' \ handlers :
                LET exact == ExactFile(Join2(getDataDir(currentWorkspace),
                                             DocumentedFolder(h.req.cat)),
                                       h.req.doc)
                IN  (DocRequest(h) /\ DocumentedFolder(h.req.cat) # <<>>
                        /\ FileExists(exact) /\ ContentOfFile(exact) # EmptyString)
                    => AnswersWith(h, ContentOfFile(exact))]_vars

\* the text of README.md in the root of the current workspace
RootReadme == ReadFile(Join2(getDataDir(currentWorkspace), sReadmeMd)).data

\* a content made of the root README.md: the welcome content carrying it, or
\* the file itself
IsRootReadme(content) ==
    \/ content.kind = "welcome" /\ content.readme = RootReadme
    \/ content = FileContent(RootReadme)

\* C26: resolving the overview item README yields the content of the
\* workspace's root README.md, whatever the category and without looking in a
\* category folder: in the terminal when "down" loads it, and in the page
\* built for GET /?doc=README&cat=Overview.
C26_OverviewIsRootReadme ==
    /\ [][(KeyDown /\ Len(m.filteredItems) > 0 /\ NextItem.name = sREADME
                /\ sREADME \notin DOMAIN m.docCache) =>
            /\ m'.viewport.kind = "rendered"
            /\ IsRootReadme(m'.viewport.raw)]_vars
    /\ [][HandleTypedRequest =>
            \A h \in handlers' \ handlers :
                (h.req.doc = sREADME /\ h.req.cat # <<>>) =>
                    /\ h.pc = "write"
                    /\ h.html.kind = "page"
                    /\ IsRootReadme(h.html.body.raw)]_vars

\* the item "up" moves the cursor to
PrevItem ==
    m.filteredItems[((m.cursor - 1 + Len(m.filteredItems)) % Len(m.filteredItems)) + 1]

\* no candidate of the item's name is a file of its category's folder
NoCandidate(i) ==
    /\ i.name # sREADME
    /\ FirstOfFive(FolderDir(i.category), i.name).path = <<>>

\* the session shows the not-found placeholder of the item and has no file path
PlaceholderShown(mm, i) ==
    LET placeholder == NotFoundContent(i.name, i.category, FolderOf(i.category))
    IN  /\ mm.viewport = placeholder
        /\ mm.docContent = placeholder
        /\ mm.docPath = <<>>

\* C27: when "up" or "down" selects a document none of whose candidates is a
\* file, the load does not fail: the program goes on, the displayed and the
\* current content are the placeholder naming the document, its category and
\* the expected folder, and the current file path is none.
C27_MissShowsPlaceholder ==
    [][/\ (KeyDown /\ Len(m.filteredItems) > 0 /\ NoCandidate(NextItem))
            => (PlaceholderShown(m', NextItem) /\ ~crashed' /\ ~m'.quitting)
       /\ (KeyUp /\ Len(m.filteredItems) > 0 /\ NoCandidate(PrevItem))
            => (PlaceholderShown(m', PrevItem) /\ ~crashed' /\ ~m'.quitting)]_vars

\* the step ran loadDoc(name): on a hit the cached rendering is displayed as
\* it is and cache, current content and path stay; on a miss the cache gains
\* the one entry `name`, which is displayed, and keeps every other entry
LoadDocStep(name) ==
    IF name \in DOMAIN m.docCache
    THEN /\ m'.docCache = m.docCache
         /\ m'.viewport = m.docCache[name]
         /\ m'.docContent = m.docContent
         /\ m'.docPath = m.docPath
    ELSE /\ DOMAIN m'.docCache = DOMAIN m.docCache \cup {name}
         /\ \A k \in DOMAIN m.docCache : m'.docCache[k] = m.docCache[k]
         /\ m'.viewport = m'.docCache[name]

RawShown(item) ==
    LET raw == IF item.name = sREADME
               THEN generateWelcomeContent(m.config, getDataDir(currentWorkspace))
               ELSE m'.docContent
    IN  (item.name \notin DOMAIN m.docCache /\ (~glamour.ok \/ raw = EmptyString)) =>
            /\ m'.viewport = raw
            /\ m'.docCache[item.name] = raw
            /\ ~crashed' /\ ~m'.quitting /\ ~m'.filtering

\* C29: when the renderer fails or returns "", the document loaded by "up"
\* or "down" is displayed and cached as its raw content and the session goes
\* on in Browsing.
C29_RenderFailureShowsRaw ==
    [][/\ (KeyDown /\ Len(m.filteredItems) > 0) => RawShown(NextItem)
       /\ (KeyUp /\ Len(m.filteredItems) > 0) => RawShown(PrevItem)]_vars

\* with a failing renderer a file and the overview were loaded and are
\* displayed and cached unrendered
C29_RawFileShown ==
    /\ ~glamour.ok
    /\ m.docCacheKey \notin {sWelcome, sREADME}
    /\ m.viewport.kind = "file"
    /\ m.viewport # EmptyString
    /\ m.viewport = m.docContent
    /\ m.docCache[m.docCacheKey] = m.viewport
    /\ sREADME \in DOMAIN m.docCache
    /\ m.docCache[sREADME].kind = "welcome"

RECURSIVE RefsBefore(_, _)
\* the number of references in the categories before the c-th
RefsBefore(cats, c) ==
    IF c <= 1 THEN 0 ELSE RefsBefore(cats, c - 1) + Len(cats[c - 1].References)

\* C30: the index is the overview item followed by one item per reference,
\* categories in configuration order and references in order within each, each
\* with its reference's name and description and its category's name; it has
\* 1 + the number of references items.
C30_IndexFollowsConfig ==
    LET cats == m.config.Categories
    IN  /\ Len(m.items) = 1 + RefsBefore(cats, Len(cats) + 1)
        /\ m.items[1] = [name |-> sREADME, description |-> sOverviewDesc,
                         category |-> sOverview]
        /\ \A c \in 1..Len(cats) : \A r \in 1..Len(cats[c].References) :
                m.items[1 + RefsBefore(cats, c) + r] =
                    [name |-> cats[c].References[r].Name,
                     description |-> cats[c].References[r].Description,
                     category |-> cats[c].Name]

\* "W" rebuilt the index from a configuration of two categories, the first
\* with two references
C30_IndexRebuilt ==
    /\ m.toastTimer > 0
    /\ Len(m.toast) = 2
    /\ m.toast[2] = "alpha"
    /\ m.config = ConfigAlpha
    /\ Len(m.items) = 4
    /\ m.items[4].category = ConfigAlpha.Categories[2].Name
    /\ m.activeTab = 2

\* the document on display is the overview or a not-found placeholder
SyntheticShown ==
    \/ m.docCacheKey \in {sWelcome, sREADME}
    \/ m.viewport.kind \in {"welcome", "notfound"}
    \/ m.viewport.kind = "rendered" /\ m.viewport.raw.kind = "welcome"

\* the file loadDoc reads for a name when nothing is cached
BackingPath(name) ==
    loadDoc([m EXCEPT !.docCache = <<>>], name, currentWorkspace, glamour).docPath

\* C31: after any navigation the current file path is the path of the file
\* behind the document on display, and none when that document is the
\* overview or a not-found placeholder.
C31_PathOfDisplayedDocument ==
    IF SyntheticShown THEN m.docPath = <<>>
    ELSE m.docPath = BackingPath(m.docCacheKey)

\* the request behind the sidebar link of an item
LinkOf(i) == [doc |-> urlEncode(i.name), cat |-> urlEncode(i.category)]

\* what the terminal resolves for a name when nothing is cached
TerminalResolves(name) ==
    loadDoc([m EXCEPT !.docCache = <<>>], name, currentWorkspace, glamour)

\* C32: the terminal and the web endpoint, reached through the sidebar link of
\* the item, select the same file: the content "down" loads is the content
\* the link's request resolves, and a request through the link of an item is
\* answered with the content the terminal resolves for it, or with no page
\* of its own when the terminal finds no file.
C32_TerminalAndWebAgree ==
    /\ [][LoadsFromDisk =>
            LET link == LinkOf(NextItem)
                web == loadDocContentFromDisk(link.cat, link.doc, currentWorkspace)
            IN  IF m'.docPath = <<>> THEN web = EmptyString ELSE web = m'.docContent]_vars
    /\ [][HandleRequest =>
            \A h \in handlers' \ handlers :
                \A k \in 2..Len(m.items) :
                    h.req = LinkOf(m.items[k]) =>
                        LET t == TerminalResolves(m.items[k].name)
                        IN  IF t.docPath = <<>> THEN h.pc = "read"
                            ELSE AnswersWith(h, t.docContent)]_vars

\* the page on display is the page of the highlighted item
PageOfCursor(mm) == mm.currentPage = mm.cursor \div getItemsPerPage(mm)

\* C33: in Browsing with a non-empty view, currentPage = cursor / itemsPerPage
\* as long as the window height stays: a step that keeps the height and
\* starts with the page of the cursor on display ends, when it ends in
\* Browsing with a non-empty view, with the page of the cursor on display.
C33_CursorOnDisplayedPage ==
    [][(/\ m'.height = m.height
        /\ PageOfCursor(m)
        /\ ~m'.filtering
        /\ Len(m'.filteredItems) > 0) => PageOfCursor(m')]_vars

\* C34: in every state 0 <= activeTab <= len(config.Categories), also after a
\* switch to a configuration with fewer categories, so that filterByTab's
\* lookup of the tab's category is within the list.
C34_ActiveTabInRange ==
    /\ m.activeTab >= 0
    /\ m.activeTab <= Len(m.config.Categories)

\* "W" has just replaced the configuration by one of a single category and
\* the tab is in range
C34_SwitchedToFewerCategories ==
    /\ Len(m.toast) = 2
    /\ m.toast[2] = "beta"
    /\ m.toastTimer = ToastTicks - 1
    /\ m.config = ConfigBeta
    /\ Len(m.config.Categories) = 1
    /\ m.activeTab = 0

\* C35: however "s" and "W" interleave with the goroutines serveMarkdown
\* launches, a listen goroutine never calls ListenAndServe while httpServer is
\* nil, and the server it starts is the one its own serveMarkdown call
\* created: it never finds a server that another goroutine has already
\* started.
C35_ListenOnOwnServer ==
    [][ListenAndServe
        => /\ httpServer # 0
           /\ servers[httpServer] \notin {"listening", "failed"}]_vars

\* C36: a successful workspace switch leaves currentConfig, the configuration
\* the web sidebar is built from, equal to the configuration the terminal
\* index was rebuilt from, and every page a start of the web endpoint
\* publishes lists the categories and references of the session's
\* configuration.
C36_SidebarFollowsSwitch ==
    /\ [][SuccessfulSwitch => currentConfig' = m'.config]_vars
    /\ [][StartHTML
            => currentHTML'.sidebar = LinksOfCategories(m.config.Categories)]_vars

====
